---- MODULE Spec2Model ----
(***************************************************************************)
(* A model of the graph fusion pass of torch/csrc/jit/passes/graph_fuser.cpp *)
(* (struct GraphFuser and FuseGraph).                                      *)
(*                                                                         *)
(* The outer graph is a map from node ids to node records plus the order  *)
(* of graph->nodes().  A Value is the pair <<producer id, output offset>>  *)
(* (offsets count from 1).  The graph inputs are the outputs of the Param *)
(* node, the graph outputs are the inputs of the Return node.  A fusion   *)
(* group carries its subgraph: the ordered parameter ids, the ordered     *)
(* body and the registered outputs.  Inside a subgraph a parameter is the *)
(* value <<ParamId, uid>>.  The clone that mergeNodeIntoGroup puts into a *)
(* subgraph keeps the id of the outer node it copies (that node is        *)
(* destroyed by every caller), and so does the temporary outer clone that *)
(* mergeFusionGroups makes of a subgraph node.                            *)
(***************************************************************************)
EXTENDS Integers, Sequences, FiniteSets, TLC

\* ---------------------------------------------------------------- bounds
\* nodes of an input graph
MaxNodes == 4
\* nodes of an input graph with nodes in two stages
MaxStagedNodes == 3
\* nodes of an input graph whose input is not a float tensor on the accelerator
MaxOddNodes == 2
\* split nodes of an input graph
MaxSplits == 1
\* two-input nodes of an input graph
MaxWide == 3
\* the highest stage of an input graph
MaxStage == 1
\* outputs of a split node
ChunkCount == 2
\* nodes of an input graph of one stage whose only two-input node reads both
\* outputs of a split
MaxLongNodes == 5
\* steps of the pass after which the model stops following a run
MaxSteps == 40

ParamId == 0
ReturnId == 1
FirstId == 2
\* the reverse iterator nodes.rend()
REnd == -1

VARIABLES
  nodes,              \* id -> node record, the live nodes of the outer graph
  node_list,          \* graph->nodes(): the ids in list order
  topological_index,  \* GraphFuser::topological_index
  next_unique,        \* the next fresh id
  pc,                 \* "build" | "scan" | "done" | "failed"
  it,                 \* run()'s reverse iterator: a node id or REnd
  any_changed,        \* run()'s any_changed
  pass,               \* 1: the first FuseGraph call, 2: FuseGraph called again
  failure,            \* the assertion that aborted the pass, "" if none
  hist                \* history: what the checks below read, never the pass

vars == <<nodes, node_list, topological_index, next_unique, pc, it,
          any_changed, pass, failure, hist>>

\* ------------------------------------------------------------ sequences
Last(s) == s[Len(s)]

IndexOf(s, x) == CHOOSE i \in 1..Len(s) : s[i] = x

Has(s, x) == \E i \in 1..Len(s) : s[i] = x

RemoveAt(s, p) == [i \in 1..(Len(s) - 1) |-> IF i < p THEN s[i] ELSE s[i + 1]]

Remove(s, x) == IF Has(s, x) THEN RemoveAt(s, IndexOf(s, x)) ELSE s

InsertAt(s, p, x) ==
  [i \in 1..(Len(s) + 1) |-> IF i < p THEN s[i] ELSE IF i = p THEN x ELSE s[i - 1]]

InsertBefore(s, x, ref) == InsertAt(s, IndexOf(s, ref), x)

Range(s) == {s[i] : i \in 1..Len(s)}

\* -------------------------------------------------------------- records
TensorType(f, d, s) == [float |-> f, device |-> d, sizes |-> s]

EmptySub == [inputs |-> <<>>, body |-> <<>>, outputs |-> <<>>]

Node(k, ins, tys, st, ost, sg) ==
  [kind |-> k, inputs |-> ins, otypes |-> tys, stage |-> st, ostage |-> ost, sub |-> sg]

Inner(i, k, ins, tys, ost) ==
  [id |-> i, kind |-> k, inputs |-> ins, otypes |-> tys, ostage |-> ost]

\* the kinds of simple_mappable this model draws nodes from
simple_mappable == {"neg", "min"}

isSimpleMapKind(kind, ninputs) ==
  IF kind \in simple_mappable
  THEN IF kind = "min" THEN ninputs = 2 ELSE TRUE
  ELSE FALSE

isSimpleMap(G, n) == isSimpleMapKind(G.nodes[n].kind, Len(G.nodes[n].inputs))

TypeOf(G, v) == G.nodes[v[1]].otypes[v[2]]

isCuda(G, n) == G.nodes[n].otypes[1].device # -1

hasFloatType(G, v) == TypeOf(G, v).float

allFloatIO(G, n) ==
  /\ \A o \in 1..Len(G.nodes[n].otypes) : hasFloatType(G, <<n, o>>)
  /\ \A i \in 1..Len(G.nodes[n].inputs) : hasFloatType(G, G.nodes[n].inputs[i])

isFusable(G, n) ==
  IF G.nodes[n].kind = "FusionGroup" THEN TRUE
  ELSE isSimpleMap(G, n) /\ allFloatIO(G, n) /\ isCuda(G, n)

\* isFusableAsExitNode without the comparison of sizes of lines 136-141
isFusableAsExitAnySizes(G, n) ==
  IF isFusable(G, n) THEN TRUE
  ELSE G.nodes[n].kind = "cat" /\ isCuda(G, n)

isFusableAsExitNode(G, n) ==
  IF isFusable(G, n) THEN TRUE
  ELSE IF G.nodes[n].kind # "cat" \/ ~isCuda(G, n) THEN FALSE
  ELSE \A i \in 1..Len(G.nodes[n].inputs) :
         TypeOf(G, G.nodes[n].inputs[i]).sizes = TypeOf(G, G.nodes[n].inputs[1]).sizes

\* Value::uses(): the <<user, input position>> pairs that read v
Uses(G, v) ==
  {<<u, i>> \in UNION {{u} \X (1..Len(G.nodes[u].inputs)) : u \in DOMAIN G.nodes} :
     G.nodes[u].inputs[i] = v}

\* std::unordered_map::operator[]: a missing key reads as 0
TopoGet(G, n) == IF n \in DOMAIN G.topo THEN G.topo[n] ELSE 0

\* the test of lines 150-156 without "or occur after it"
allUsersAreOnlyThisConsumer(G, consumer, producer) ==
  \A u \in Uses(G, producer) : ~(u[1] # consumer)

allUsersAreThisConsumerOrOccurAfterIt(G, consumer, producer) ==
  \A u \in Uses(G, producer) :
    ~(u[1] # consumer /\ TopoGet(G, consumer) > TopoGet(G, u[1]))

allUsersAreThisConsumer(G, consumer, producer) ==
  \A u \in Uses(G, producer) : u[1] = consumer

\* shouldFuse with a cap: a consumer that holds two ops takes no more
shouldFuseCapped(G, consumer, producer) ==
  /\ isFusable(G, producer[1])
  /\ allUsersAreThisConsumerOrOccurAfterIt(G, consumer, producer)
  /\ Len(G.nodes[consumer].sub.body) < 2

shouldFuse(G, consumer, producer) ==
  isFusable(G, producer[1]) /\ allUsersAreThisConsumerOrOccurAfterIt(G, consumer, producer)

isChunk(G, n) == G.nodes[n].kind = "split"

\* ------------------------------------------------- the IR's primitives
(* The pass works on a record G of the fuser's state while one scanNode   *)
(* call runs: nodes, list (graph->nodes()), topo (topological_index),     *)
(* next (fresh ids), stage (the stage set by setStageTemporary), fail     *)
(* (the assertion that failed, "" if none), bad (a node was destroyed     *)
(* while an output of it still had a use) and res (the node returned).    *)
Fail(G, why) == [G EXCEPT !.fail = IF @ = "" THEN why ELSE @]

FirstIndexOf(s, x) ==
  CHOOSE i \in 1..Len(s) : s[i] = x /\ \A j \in 1..(i - 1) : s[j] # x

LastIndexOf(s, x) ==
  CHOOSE i \in 1..Len(s) : s[i] = x /\ \A j \in (i + 1)..Len(s) : s[j] # x

SubstSeq(s, old, new) == [i \in 1..Len(s) |-> IF s[i] = old THEN new ELSE s[i]]

\* Value::replaceAllUsesWith in the outer graph
replaceAllUsesWith(G, old, new) ==
  [G EXCEPT !.nodes = [u \in DOMAIN @ |-> [@[u] EXCEPT !.inputs = SubstSeq(@, old, new)]]]

\* Node::destroy: the node leaves the graph and its list
destroy(G, n) ==
  [G EXCEPT
     !.bad = @ \/ \E o \in 1..Len(G.nodes[n].otypes) : Uses(G, <<n, o>>) # {},
     !.nodes = [u \in (DOMAIN @) \ {n} |-> @[u]],
     !.list = Remove(@, n)]

\* Value::replaceAllUsesWith inside a subgraph: body inputs and outputs
SubReplaceAllUsesWith(sg, old, new) ==
  [sg EXCEPT
     !.body = [i \in 1..Len(@) |-> [@[i] EXCEPT !.inputs = SubstSeq(@, old, new)]],
     !.outputs = SubstSeq(@, old, new)]

\* subgraph.registerOutput(v) and group->addOutput() with the type ty
addGroupOutput(G, group, v, ty) ==
  [G EXCEPT !.nodes[group].sub.outputs = Append(@, v),
            !.nodes[group].otypes = Append(@, ty)]

\* ------------------------------------------------------ the group builder
\* lines 249-256 without the test of line 250: every input of n is added
RECURSIVE addEveryInput(_, _, _, _)
addEveryInput(G, group, ins, i) ==
  IF i > Len(ins) THEN G
  ELSE addEveryInput(
         [G EXCEPT !.nodes[group].inputs = Append(@, ins[i]),
                   !.nodes[group].sub.inputs = Append(@, G.next),
                   !.next = @ + 1],
         group, ins, i + 1)

\* lines 249-256: add n's inputs the group does not have yet
RECURSIVE addMissingInputs(_, _, _, _)
addMissingInputs(G, group, ins, i) ==
  IF i > Len(ins) THEN G
  ELSE IF Has(G.nodes[group].inputs, ins[i])
       THEN addMissingInputs(G, group, ins, i + 1)
       ELSE addMissingInputs(
              [G EXCEPT !.nodes[group].inputs = Append(@, ins[i]),
                        !.nodes[group].sub.inputs = Append(@, G.next),
                        !.next = @ + 1],
              group, ins, i + 1)

\* lines 265-272: n's output stops being an input of the group
dropMergedInput(G, group, n) ==
  LET g == G.nodes[group]
      p == FirstIndexOf(g.inputs, <<n, 1>>)
  IN  IF Has(g.inputs, <<n, 1>>)
      THEN [G EXCEPT
              !.nodes[group].inputs = RemoveAt(@, p),
              !.nodes[group].sub =
                 [SubReplaceAllUsesWith(@, <<ParamId, g.sub.inputs[p]>>, <<n, 1>>)
                    EXCEPT !.inputs = RemoveAt(@, p)]]
      ELSE G

mergeNodeIntoGroup(G, group, n) ==
  IF G.fail # "" THEN G
  ELSE IF G.nodes[n].kind = "FusionGroup" THEN Fail(G, "mergeNodeIntoGroup: kind")
  ELSE IF Len(G.nodes[group].inputs) # Len(G.nodes[group].sub.inputs)
       THEN Fail(G, "mergeNodeIntoGroup: inputs")
  ELSE IF Len(G.nodes[n].otypes) # 1 THEN Fail(G, "Node::output")
  ELSE
    LET G1 == addMissingInputs(G, group, G.nodes[n].inputs, 1)
        g1 == G1.nodes[group]
        nd == G.nodes[n]
        in_graph ==
          Inner(n, nd.kind,
                [k \in 1..Len(nd.inputs) |->
                   <<ParamId, g1.sub.inputs[LastIndexOf(g1.inputs, nd.inputs[k])]>>],
                nd.otypes, nd.ostage)
        \* createClone has made in_graph a user of the parameters it reads
        G2 == [G1 EXCEPT !.nodes[group].sub.body = <<in_graph>> \o @]
    IN  dropMergedInput(G2, group, n)

\* createSingletonFusionGroup without line 288, n->replaceAllUsesWith(group)
createSingletonKeepingUses(G, n) ==
  LET group == G.next
      G1 == [G EXCEPT
               !.next = @ + 1,
               !.nodes = [u \in (DOMAIN @) \cup {group} |->
                            IF u = group
                            THEN Node("FusionGroup", <<>>, <<>>, G.stage, G.stage, EmptySub)
                            ELSE @[u]],
               !.topo = [u \in (DOMAIN @) \cup {group} |->
                           IF u = group THEN TopoGet(G, n) ELSE @[u]],
               !.list = InsertBefore(@, group, n)]
      G2 == mergeNodeIntoGroup(G1, group, n)
      G3 == addGroupOutput(G2, group, <<n, 1>>, G2.nodes[n].otypes[1])
  IN  IF G2.fail # "" THEN G2 ELSE [destroy(G3, n) EXCEPT !.res = group]

\* createSingletonFusionGroup without line 282, the group's topological index
createSingletonNoIndex(G, n) ==
  LET group == G.next
      G1 == [G EXCEPT
               !.next = @ + 1,
               !.nodes = [u \in (DOMAIN @) \cup {group} |->
                            IF u = group
                            THEN Node("FusionGroup", <<>>, <<>>, G.stage, G.stage, EmptySub)
                            ELSE @[u]],
               !.list = InsertBefore(@, group, n)]
      G2 == mergeNodeIntoGroup(G1, group, n)
      G3 == addGroupOutput(G2, group, <<n, 1>>, G2.nodes[n].otypes[1])
      G4 == replaceAllUsesWith(G3, <<n, 1>>, <<group, 1>>)
  IN  IF G2.fail # "" THEN G2 ELSE [destroy(G4, n) EXCEPT !.res = group]

createSingletonFusionGroup(G, n) ==
  LET group == G.next
      G1 == [G EXCEPT
               !.next = @ + 1,
               !.nodes = [u \in (DOMAIN @) \cup {group} |->
                            IF u = group
                            THEN Node("FusionGroup", <<>>, <<>>, G.stage, G.stage, EmptySub)
                            ELSE @[u]],
               !.topo = [u \in (DOMAIN @) \cup {group} |->
                           IF u = group THEN TopoGet(G, n) ELSE @[u]],
               !.list = InsertBefore(@, group, n)]
      G2 == mergeNodeIntoGroup(G1, group, n)
      G3 == addGroupOutput(G2, group, <<n, 1>>, G2.nodes[n].otypes[1])
      G4 == replaceAllUsesWith(G3, <<n, 1>>, <<group, 1>>)
  IN  IF G2.fail # "" THEN G2 ELSE [destroy(G4, n) EXCEPT !.res = group]

\* lines 223-233: one temporary node goes into the consumer group
RECURSIVE exposeOutputs(_, _, _, _)
exposeOutputs(G, group, t, i) ==
  IF i > Len(G.nodes[t].otypes) THEN G
  ELSE IF Uses(G, <<t, i>>) = {} THEN exposeOutputs(G, group, t, i + 1)
  ELSE LET G1 == addGroupOutput(G, group, <<t, i>>, G.nodes[t].otypes[i])
           new_output == <<group, Len(G1.nodes[group].otypes)>>
       IN  exposeOutputs(replaceAllUsesWith(G1, <<t, i>>, new_output), group, t, i + 1)

absorbTemporary(G, group, t) ==
  LET G1 == mergeNodeIntoGroup(G, group, t)
  IN  IF G1.fail # "" THEN G1 ELSE destroy(exposeOutputs(G1, group, t, 1), t)

RECURSIVE absorbAll(_, _, _, _)
absorbAll(G, group, temps, i) ==
  IF i = 0 THEN G ELSE absorbAll(absorbTemporary(G, group, temps[i]), group, temps, i - 1)

RECURSIVE replaceGroupOutputs(_, _, _, _)
replaceGroupOutputs(G, pg, targets, i) ==
  IF i > Len(targets) THEN G
  ELSE replaceGroupOutputs(replaceAllUsesWith(G, <<pg, i>>, targets[i]), pg, targets, i + 1)

mergeFusionGroups(G, consumer_group, producer_group) ==
  LET psub == G.nodes[producer_group].sub
      outer_inputs == G.nodes[producer_group].inputs
      inner_to_outer(v) ==
        IF v[1] = ParamId THEN outer_inputs[FirstIndexOf(psub.inputs, v[2])] ELSE v
      temporary_nodes == [i \in 1..Len(psub.body) |-> psub.body[i].id]
      clone(i) ==
        Node(psub.body[i].kind,
             [k \in 1..Len(psub.body[i].inputs) |-> inner_to_outer(psub.body[i].inputs[k])],
             psub.body[i].otypes, G.stage, psub.body[i].ostage, EmptySub)
      p == IndexOf(G.list, producer_group)
      \* lines 196-207: the clones stand before producer_group, in body order
      G1 == [G EXCEPT
               !.nodes = [u \in (DOMAIN @) \cup Range(temporary_nodes) |->
                            IF u \in Range(temporary_nodes)
                            THEN clone(FirstIndexOf(temporary_nodes, u))
                            ELSE @[u]],
               !.list = [i \in 1..(Len(@) + Len(temporary_nodes)) |->
                           IF i < p THEN @[i]
                           ELSE IF i < p + Len(temporary_nodes)
                                THEN temporary_nodes[i - p + 1]
                                ELSE @[i - Len(temporary_nodes)]]]
      \* lines 209-215
      G2 == replaceGroupOutputs(G1, producer_group,
              [i \in 1..Len(psub.outputs) |-> inner_to_outer(psub.outputs[i])], 1)
      G3 == destroy(G2, producer_group)
  IN  [absorbAll(G3, consumer_group, temporary_nodes, Len(temporary_nodes))
         EXCEPT !.res = consumer_group]

\* fuse without line 322, producer->node()->destroy()
fuseKeepingProducer(G, consumer, producer) ==
  LET G1 == IF G.nodes[consumer].kind # "FusionGroup"
            THEN createSingletonFusionGroup(G, consumer)
            ELSE [G EXCEPT !.res = consumer]
      group == G1.res
      pn == producer[1]
      G2 == mergeNodeIntoGroup(G1, group, pn)
      G3 == IF Uses(G2, producer) # {}
            THEN LET G4 == addGroupOutput(G2, group, <<pn, 1>>, TypeOf(G2, producer))
                     new_producer == <<group, Len(G4.nodes[group].otypes)>>
                 IN  replaceAllUsesWith(G4, producer, new_producer)
            ELSE G2
  IN  IF G1.fail # "" THEN G1
      ELSE IF G1.nodes[pn].kind = "FusionGroup"
           THEN mergeFusionGroups(G1, group, pn)
      ELSE IF G2.fail # "" THEN G2
      ELSE [G3 EXCEPT !.res = group]

\* fuse without lines 316-321: the producer is never made a group output
fuseWithoutOutput(G, consumer, producer) ==
  LET G1 == IF G.nodes[consumer].kind # "FusionGroup"
            THEN createSingletonFusionGroup(G, consumer)
            ELSE [G EXCEPT !.res = consumer]
      group == G1.res
      pn == producer[1]
      G2 == mergeNodeIntoGroup(G1, group, pn)
  IN  IF G1.fail # "" THEN G1
      ELSE IF G1.nodes[pn].kind = "FusionGroup"
           THEN mergeFusionGroups(G1, group, pn)
      ELSE IF G2.fail # "" THEN G2
      ELSE [destroy(G2, pn) EXCEPT !.res = group]

\* fuse without lines 307-310: a producer group takes the single-node path
fuseWithoutGroupMerge(G, consumer, producer) ==
  LET G1 == IF G.nodes[consumer].kind # "FusionGroup"
            THEN createSingletonFusionGroup(G, consumer)
            ELSE [G EXCEPT !.res = consumer]
      group == G1.res
      pn == producer[1]
      G2 == mergeNodeIntoGroup(G1, group, pn)
      G3 == IF Uses(G2, producer) # {}
            THEN LET G4 == addGroupOutput(G2, group, <<pn, 1>>, TypeOf(G2, producer))
                     new_producer == <<group, Len(G4.nodes[group].otypes)>>
                 IN  replaceAllUsesWith(G4, producer, new_producer)
            ELSE G2
  IN  IF G1.fail # "" THEN G1
      ELSE IF G2.fail # "" THEN G2
      ELSE [destroy(G3, pn) EXCEPT !.res = group]

fuse(G, consumer, producer) ==
  LET G1 == IF G.nodes[consumer].kind # "FusionGroup"
            THEN createSingletonFusionGroup(G, consumer)
            ELSE [G EXCEPT !.res = consumer]
      group == G1.res
      pn == producer[1]
      G2 == mergeNodeIntoGroup(G1, group, pn)
      G3 == IF Uses(G2, producer) # {}
            THEN LET G4 == addGroupOutput(G2, group, <<pn, 1>>, TypeOf(G2, producer))
                     new_producer == <<group, Len(G4.nodes[group].otypes)>>
                 IN  replaceAllUsesWith(G4, producer, new_producer)
            ELSE G2
  IN  IF G1.fail # "" THEN G1
      ELSE IF G1.nodes[pn].kind = "FusionGroup"
           THEN mergeFusionGroups(G1, group, pn)
      ELSE IF G2.fail # "" THEN G2
      ELSE [destroy(G3, pn) EXCEPT !.res = group]

\* ------------------------------------------- the chunk-distribution rewrite
\* copyAttributes of a subgraph: the copy's body gets ids of its own
RenameSub(sg, base) ==
  LET newId(old) == base + FirstIndexOf([i \in 1..Len(sg.body) |-> sg.body[i].id], old) - 1
      ren(v) == IF v[1] = ParamId THEN v ELSE <<newId(v[1]), v[2]>>
  IN  [inputs |-> sg.inputs,
       body |-> [i \in 1..Len(sg.body) |->
                   [sg.body[i] EXCEPT !.id = base + i - 1,
                                      !.inputs = [k \in 1..Len(@) |-> ren(@[k])]]],
       outputs |-> [i \in 1..Len(sg.outputs) |-> ren(sg.outputs[i])]]

\* chunkVerdict without lines 356-362: other users of the split are allowed
chunkVerdictAnyUser(G, consumer, producer) ==
  LET chunk == producer[1]
      producer_for_chunk == G.nodes[chunk].inputs[1]
  IN  IF ~isChunk(G, chunk) THEN "no"
      ELSE IF ~isFusable(G, producer_for_chunk[1])
              \/ ~allUsersAreThisConsumer(G, chunk, producer_for_chunk) THEN "no"
      ELSE IF Len(G.nodes[producer_for_chunk[1]].otypes) # 1 THEN "fail"
      ELSE "move"

\* lines 348-367: "no" (return false), "fail" (the assertion), "move"
chunkVerdict(G, consumer, producer) ==
  LET chunk == producer[1]
      producer_for_chunk == G.nodes[chunk].inputs[1]
  IN  IF ~isChunk(G, chunk) THEN "no"
      ELSE IF ~isFusable(G, producer_for_chunk[1])
              \/ ~allUsersAreThisConsumer(G, chunk, producer_for_chunk) THEN "no"
      ELSE IF \E s \in 1..Len(G.nodes[chunk].otypes) :
                \E u \in Uses(G, <<chunk, s>>) : u[1] # consumer THEN "no"
      ELSE IF Len(G.nodes[producer_for_chunk[1]].otypes) # 1 THEN "fail"
      ELSE "move"

RECURSIVE destroyAll(_, _, _)
destroyAll(G, ns, i) ==
  IF i > Len(ns) THEN G ELSE destroyAll(destroy(G, ns[i]), ns, i + 1)

\* lines 370-412, reached when chunkVerdict is "move"
tryToMoveChunk(G, consumer, producer) ==
  LET chunk == producer[1]
      pn == G.nodes[chunk].inputs[1][1]
      op == G.nodes[pn]
      ch == G.nodes[chunk]
      m == Len(op.inputs)
      k == Len(ch.otypes)
      blen == Len(op.sub.body)
      input_chunk(j) == G.next + j - 1
      chunked_op(i) == G.next + m + (i - 1) * (blen + 1)
      splitNode(j) ==
        Node("split", <<op.inputs[j]>>,
             [s \in 1..k |-> TensorType(TypeOf(G, op.inputs[j]).float,
                                        TypeOf(G, op.inputs[j]).device,
                                        ch.otypes[s].sizes)],
             G.stage, ch.ostage, EmptySub)
      opNode(i) ==
        Node(op.kind, [j \in 1..m |-> <<input_chunk(j), i>>], <<ch.otypes[i]>>,
             G.stage, op.ostage, RenameSub(op.sub, chunked_op(i) + 1))
      created == [x \in 1..(m + k) |-> IF x <= m THEN input_chunk(x) ELSE chunked_op(x - m)]
      p == IndexOf(G.list, chunk)
      G1 == [G EXCEPT
               !.next = @ + m + k * (blen + 1),
               !.nodes = [u \in (DOMAIN @) \cup Range(created) |->
                            IF u \in DOMAIN @ THEN @[u]
                            ELSE LET x == FirstIndexOf(created, u)
                                 IN  IF x <= m THEN splitNode(x) ELSE opNode(x - m)],
               \* insertAt: each new node stands after the one inserted before it
               !.list = [i \in 1..(Len(@) + m + k) |->
                           IF i <= p THEN @[i]
                           ELSE IF i <= p + m + k THEN created[i - p]
                           ELSE @[i - m - k]],
               !.topo = [u \in (DOMAIN @) \cup Range(created) |->
                           IF u \in Range(created) THEN TopoGet(G, chunk) ELSE @[u]]]
      G2 == replaceGroupOutputs(G1, chunk, [i \in 1..k |-> <<chunked_op(i), 1>>], 1)
  IN  [destroyAll(G2, <<chunk, pn>>, 1) EXCEPT !.res = consumer]

\* ------------------------------------------------------ the input graphs
\* a graph input: a float tensor on the accelerator, or not
NumInputs == 1

InputSizes == 4

InputTypes ==
  {TensorType(TRUE, 0, InputSizes), TensorType(FALSE, 0, InputSizes),
   TensorType(TRUE, -1, InputSizes)}

\* the values a new node of the input graph may read
Values == {v \in (DOMAIN nodes) \X (1..ChunkCount) :
             v[1] # ReturnId /\ v[2] <= Len(nodes[v[1]].otypes)}

VType(v) == nodes[v[1]].otypes[v[2]]

\* the output types the tracer gives a node of each kind
OutTypes(kind, ins) ==
  LET t == VType(ins[1])
  IN  CASE kind = "split" ->
             [s \in 1..ChunkCount |-> TensorType(t.float, t.device, t.sizes \div ChunkCount)]
        [] kind = "cat" ->
             <<TensorType(t.float, t.device, t.sizes + VType(ins[2]).sizes)>>
        [] kind = "min" /\ Len(ins) = 1 -> <<TensorType(t.float, t.device, 1)>>
        [] OTHER -> <<t>>

\* x has two inputs, the two outputs of one split
ReadsSplit(x) ==
  /\ Len(x.inputs) = 2 /\ x.inputs[1][1] = x.inputs[2][1]
  /\ nodes[x.inputs[1][1]].kind = "split"

\* with the new node nd the graph has one two-input node, which reads a split
Long(nd) ==
  LET wide == {n \in Range(node_list) : Len(nodes[n].inputs) = 2}
  IN  IF Len(nd.inputs) = 2 THEN wide = {} /\ ReadsSplit(nd)
      ELSE Cardinality(wide) = 1 /\ \A n \in wide : ReadsSplit(nodes[n])

\* how many nodes a graph with this new node may have
NodeLimit(nd) ==
  LET all == {nodes[n] : n \in Range(node_list)} \cup {nd}
      lims == {IF Long(nd) THEN MaxLongNodes ELSE MaxNodes}
              \cup (IF \E x \in all : x.stage > 0 THEN {MaxStagedNodes} ELSE {})
              \cup (IF nodes[ParamId].otypes[1] # TensorType(TRUE, 0, InputSizes)
                    THEN {MaxOddNodes} ELSE {})
  IN  CHOOSE l \in lims : \A x \in lims : l <= x

LastStage == IF node_list = <<>> THEN 0 ELSE nodes[Last(node_list)].stage

NoHist == [orig |-> <<>>, bad |-> FALSE, steps |-> 0, sweep |-> <<>>, final |-> <<>>]

Init ==
  /\ \E ty \in InputTypes :
       nodes = [n \in {ParamId, ReturnId} |->
                  IF n = ParamId
                  THEN Node("Param", <<>>, [i \in 1..NumInputs |-> ty], 0, 0, EmptySub)
                  ELSE Node("Return", <<>>, <<>>, 0, 0, EmptySub)]
  /\ node_list = <<>>
  /\ topological_index = <<>>
  /\ next_unique = FirstId
  /\ pc = "build"
  /\ it = REnd
  /\ any_changed = FALSE
  /\ pass = 1
  /\ failure = ""
  /\ hist = NoHist

\* the client appends a node to the graph it is going to hand to FuseGraph
AddNode(kind, ins, st) ==
  LET nd == Node(kind, ins, OutTypes(kind, ins), st, st, EmptySub)
  IN  /\ pc = "build"
      /\ Len(node_list) + 1 <= NodeLimit(nd)
      /\ Cardinality({n \in Range(node_list) : nodes[n].kind = "split"})
           + (IF kind = "split" THEN 1 ELSE 0) <= MaxSplits
      /\ Cardinality({n \in Range(node_list) : Len(nodes[n].inputs) = 2})
           + (IF Len(ins) = 2 THEN 1 ELSE 0) <= MaxWide
      /\ nodes' = [n \in (DOMAIN nodes) \cup {next_unique} |->
                     IF n = next_unique THEN nd ELSE nodes[n]]
      /\ node_list' = Append(node_list, next_unique)
      /\ next_unique' = next_unique + 1
      /\ UNCHANGED <<topological_index, pc, it, any_changed, pass, failure, hist>>

Build ==
  /\ pc = "build" /\ Len(node_list) < MaxLongNodes
  /\ \E st \in LastStage..MaxStage :
    \/ \E kind \in {"neg", "min", "split"} : \E a \in Values :
         AddNode(kind, <<a>>, st)
    \/ \E kind \in {"min", "cat"} : \E a \in Values : \E b \in Values :
         \* two different values, in either order
         /\ a[1] < b[1] \/ (a[1] = b[1] /\ a[2] < b[2])
         /\ AddNode(kind, <<a, b>>, st)

\* the values no node reads, in list order: they are the graph's outputs
RECURSIVE Sinks(_, _)
Sinks(i, o) ==
  IF i > Len(node_list) THEN <<>>
  ELSE IF o > Len(nodes[node_list[i]].otypes) THEN Sinks(i + 1, 1)
  ELSE LET v == <<node_list[i], o>>
           G == [nodes |-> nodes]
       IN  (IF Uses(G, v) = {} THEN <<v>> ELSE <<>>) \o Sinks(i, o + 1)

\* lines 449-457: graph inputs 0, the nodes 1, 2, ..., the return node last
FreshIndex(nds, list) ==
  [n \in Range(list) \cup {ReturnId}
        \cup (IF Len(nds[ParamId].otypes) > 0 THEN {ParamId} ELSE {}) |->
     IF n = ParamId THEN 0
     ELSE IF n = ReturnId THEN Len(list) + 1
     ELSE FirstIndexOf(list, n)]

Snapshot(nds, list, topo) == [nodes |-> nds, list |-> list, topo |-> topo]

\* FuseGraph is called: run() up to the first sweep's first scanNode
Start ==
  /\ pc = "build"
  /\ node_list # <<>>
  /\ LET nds == [nodes EXCEPT ![ReturnId].inputs = Sinks(1, 1),
                              ![ReturnId].stage = LastStage,
                              ![ReturnId].ostage = LastStage]
         topo == FreshIndex(nds, node_list)
     IN  /\ nodes' = nds
         /\ topological_index' = topo
         /\ hist' = [hist EXCEPT !.orig = nds,
                                 !.sweep = Snapshot(nds, node_list, topo)]
  /\ pc' = "scan"
  /\ it' = Last(node_list)
  /\ any_changed' = FALSE
  /\ UNCHANGED <<node_list, next_unique, pass, failure>>

\* ------------------------------------------------------------- scanNode
Fuser(consumer) ==
  [nodes |-> nodes, list |-> node_list, topo |-> topological_index,
   next |-> next_unique, stage |-> nodes[consumer].stage,
   fail |-> "", bad |-> FALSE, res |-> REnd]

\* what the loop of lines 429-443 does with one producer when it reaches it
Verdict(G, consumer, producer) ==
  IF G.nodes[producer[1]].stage # G.nodes[consumer].stage THEN "none"
  ELSE LET c == chunkVerdict(G, consumer, producer)
       IN  IF c # "no" THEN c
           ELSE IF shouldFuse(G, consumer, producer) THEN "fuse" ELSE "none"

(* std::sort leaves the order of inputs with equal index open: the loop   *)
(* acts on a producer with a verdict such that no producer with a verdict *)
(* has a greater index.                                                   *)
FirstActing(G, consumer) ==
  LET ins == Range(G.nodes[consumer].inputs)
      acting == {v \in ins : Verdict(G, consumer, v) # "none"}
  IN  {v \in acting : \A w \in acting : TopoGet(G, w[1]) <= TopoGet(G, v[1])}

IndexAssert(G, consumer) ==
  \A v \in Range(G.nodes[consumer].inputs) : v[1] \in DOMAIN G.topo

\* ++consumer->reverseIterator()
Previous(list, n) ==
  LET p == IndexOf(list, n) IN IF p = 1 THEN REnd ELSE list[p - 1]

Scanning == pc = "scan" /\ it # REnd /\ hist.steps < MaxSteps

Commit(G, changed) ==
  /\ nodes' = G.nodes
  /\ node_list' = G.list
  /\ topological_index' = G.topo
  /\ next_unique' = G.next
  /\ failure' = G.fail
  /\ pc' = IF G.fail # "" THEN "failed" ELSE pc
  /\ it' = G.res
  /\ any_changed' = (any_changed \/ changed)
  /\ hist' = [hist EXCEPT !.bad = @ \/ G.bad, !.steps = @ + 1]
  /\ UNCHANGED pass

\* scanNode returns (++consumer->reverseIterator(), false)
ScanNoChange ==
  /\ Scanning
  /\ LET G == Fuser(it)
     IN  /\ isFusableAsExitNode(G, it) => IndexAssert(G, it) /\ FirstActing(G, it) = {}
         /\ Commit([G EXCEPT !.res = Previous(node_list, it)], FALSE)

\* scanNode: tryToMoveChunk returned true
ScanMoveChunk ==
  /\ Scanning
  /\ LET G == Fuser(it)
     IN  /\ isFusableAsExitNode(G, it) /\ IndexAssert(G, it)
         /\ \E producer \in FirstActing(G, it) :
              /\ Verdict(G, it, producer) = "move"
              /\ Commit(tryToMoveChunk(G, it, producer), TRUE)

\* scanNode: shouldFuse held and fuse ran
ScanFuse ==
  /\ Scanning
  /\ LET G == Fuser(it)
     IN  /\ isFusableAsExitNode(G, it) /\ IndexAssert(G, it)
         /\ \E producer \in FirstActing(G, it) :
              /\ Verdict(G, it, producer) = "fuse"
              /\ producer[1] # it
              /\ Commit(fuse(G, it, producer), TRUE)

(* scanNode: fuse ran on a group that reads its own output. Line 216 of   *)
(* mergeFusionGroups destroys producer_group, which is consumer_group, and *)
(* lines 218-233 go on using it. The read of the dead node is undefined:   *)
(* it may see the emptied input list, so that the JIT_ASSERT of line 240   *)
(* fails, or fault; neither outcome lets the pass go on.                   *)
UseAfterDestroy == {"mergeNodeIntoGroup: inputs", "mergeFusionGroups: destroyed group"}

ScanSelfMerge ==
  /\ Scanning
  /\ LET G == Fuser(it)
     IN  /\ isFusableAsExitNode(G, it) /\ IndexAssert(G, it)
         /\ \E producer \in FirstActing(G, it) :
              /\ Verdict(G, it, producer) = "fuse"
              /\ producer[1] = it
              /\ \E outcome \in UseAfterDestroy :
                   Commit(Fail([G EXCEPT !.res = it], outcome), TRUE)

\* scanNode: a JIT_ASSERT of lines 367 or 424 fails and the pass aborts
ScanAssert ==
  /\ Scanning
  /\ LET G == Fuser(it)
     IN  /\ isFusableAsExitNode(G, it)
         /\ \/ /\ ~IndexAssert(G, it)
               /\ Commit(Fail([G EXCEPT !.res = it], "scanNode: index"), FALSE)
            \/ /\ IndexAssert(G, it)
               /\ \E producer \in FirstActing(G, it) :
                    /\ Verdict(G, it, producer) = "fail"
                    /\ Commit(Fail([G EXCEPT !.res = it], "tryToMoveChunk: outputs"), FALSE)

\* run() with "if (any_changed)" for "while (any_changed)": a single sweep
SweepEndOnce ==
  /\ pc = "scan" /\ it = REnd
  /\ pc' = "done"
  /\ hist' = IF pass = 1
             THEN [hist EXCEPT !.final = Snapshot(nodes, node_list, topological_index)]
             ELSE hist
  /\ UNCHANGED <<it, any_changed>>
  /\ UNCHANGED <<nodes, node_list, topological_index, next_unique, pass, failure>>

\* lines 476-483: the for loop ends; sweep again or stop
SweepEnd ==
  /\ pc = "scan" /\ it = REnd
  /\ IF any_changed
     THEN /\ any_changed' = FALSE
          /\ it' = IF node_list = <<>> THEN REnd ELSE Last(node_list)
          /\ hist' = [hist EXCEPT !.sweep = Snapshot(nodes, node_list, topological_index)]
          /\ pc' = pc
     ELSE /\ pc' = "done"
          /\ hist' = IF pass = 1
                     THEN [hist EXCEPT !.final = Snapshot(nodes, node_list, topological_index)]
                     ELSE hist
          /\ UNCHANGED <<it, any_changed>>
  /\ UNCHANGED <<nodes, node_list, topological_index, next_unique, pass, failure>>

\* FuseGraph is called again on the graph it produced: a new GraphFuser
Rerun ==
  /\ pc = "done" /\ pass = 1
  /\ pass' = 2
  /\ pc' = "scan"
  /\ topological_index' = FreshIndex(nodes, node_list)
  /\ it' = Last(node_list)
  /\ any_changed' = FALSE
  /\ hist' = [hist EXCEPT !.sweep = Snapshot(nodes, node_list, FreshIndex(nodes, node_list))]
  /\ UNCHANGED <<nodes, node_list, next_unique, failure>>

ScanNode == ScanNoChange \/ ScanMoveChunk \/ ScanFuse \/ ScanSelfMerge \/ ScanAssert

Run == Start \/ ScanNode \/ SweepEnd \/ Rerun

Next == Build \/ Run

Spec == Init /\ [][Next]_vars

\* ---------------------------------------------------------------- checks
Running == pc \in {"scan", "done", "failed"}

Pos(n) == FirstIndexOf(node_list, n)

InList(n) == Has(node_list, n)

\* the producer of every input of n stands before n in the node list
ProducersBefore(n) ==
  \A i \in 1..Len(nodes[n].inputs) :
    LET p == nodes[n].inputs[i][1]
    IN  p = ParamId \/ (InList(p) /\ (n = ReturnId \/ Pos(p) < Pos(n)))

\* C1: after every scanNode step the list of surviving outer nodes is a
\* topological order: each input's producer stands strictly earlier.
C1_TopologicalOrder ==
  Running => \A n \in Range(node_list) \cup {ReturnId} : ProducersBefore(n)

Groups == {n \in Range(node_list) : nodes[n].kind = "FusionGroup"}

\* C3, as claimed: no assertion of the pass fails in any reachable state.
C3_NoAssertionFails == failure = ""

C7_NoCrossStageFusion ==
  \A g \in Groups : \A i \in 1..Len(nodes[g].sub.body) :
    nodes[g].sub.body[i].ostage = nodes[g].stage

\* the inner nodes of sg that read an output of the inner node x
InnerReaders(sg, x) ==
  {i \in 1..Len(sg.body) : \E k \in 1..Len(sg.body[i].inputs) : sg.body[i].inputs[k][1] = x}

\* C8, as claimed: every node of a subgraph is a simple map or a concat, and
\* no node of the subgraph reads a concat's output.
C8_OnlyMapsAndExitConcat ==
  \A g \in Groups : \A i \in 1..Len(nodes[g].sub.body) :
    LET x == nodes[g].sub.body[i]
    IN  \/ isSimpleMapKind(x.kind, Len(x.inputs))
        \/ x.kind = "cat" /\ InnerReaders(nodes[g].sub, x.id) = {}

\* C9: every node the pass destroys has, when it is destroyed, no use left
\* of any of its outputs.
C9_DestroyedUnused == ~hist.bad

\* the pass has returned after destroying the split of a chunk rewrite, the
\* op it distributed and the nodes it then fused
C9_SplitDestroyed ==
  /\ pc = "done" /\ ~hist.bad /\ Groups # {}
  /\ \E n \in DOMAIN hist.orig : hist.orig[n].kind = "split" /\ n \notin DOMAIN nodes

\* ------------------------------------------- what a graph output computes
(* The symbolic expression of a value over the graph inputs.  A fusion    *)
(* group is expanded to its subgraph; the i-th output of a split of a     *)
(* simple map is the simple map of the i-th outputs of the splits of its  *)
(* operands.  Undefined stands for a value that no evaluation order       *)
(* yields: it depends on itself or reads a node that is gone.             *)
Expr(o, i, a) == [op |-> o, ix |-> i, args |-> a]

Undefined == Expr("undefined", 0, <<>>)

EvalDepth == 4 * MaxLongNodes

RECURSIVE Sel(_, _)
Sel(o, e) ==
  IF isSimpleMapKind(e.op, Len(e.args))
  THEN Expr(e.op, 0, [k \in 1..Len(e.args) |-> Sel(o, e.args[k])])
  ELSE Expr("sel", o, <<e>>)

RECURSIVE EvalInner(_, _, _, _)
EvalInner(sg, actual, v, fuel) ==
  IF fuel = 0 THEN Undefined
  ELSE IF v[1] = ParamId
       THEN IF Has(sg.inputs, v[2]) /\ FirstIndexOf(sg.inputs, v[2]) <= Len(actual)
            THEN actual[FirstIndexOf(sg.inputs, v[2])]
            ELSE Undefined
  ELSE IF ~\E i \in 1..Len(sg.body) : sg.body[i].id = v[1] THEN Undefined
  ELSE LET x == sg.body[CHOOSE i \in 1..Len(sg.body) : sg.body[i].id = v[1]]
       IN  Expr(x.kind, 0,
                [k \in 1..Len(x.inputs) |-> EvalInner(sg, actual, x.inputs[k], fuel - 1)])

RECURSIVE Eval(_, _, _)
Eval(nds, v, fuel) ==
  IF fuel = 0 THEN Undefined
  ELSE IF v[1] = ParamId THEN Expr("in", v[2], <<>>)
  ELSE IF v[1] \notin DOMAIN nds THEN Undefined
  ELSE LET nd == nds[v[1]]
           actual == [k \in 1..Len(nd.inputs) |-> Eval(nds, nd.inputs[k], fuel - 1)]
       IN  IF nd.kind = "FusionGroup"
           THEN IF v[2] <= Len(nd.sub.outputs)
                THEN EvalInner(nd.sub, actual, nd.sub.outputs[v[2]], fuel - 1)
                ELSE Undefined
           ELSE IF nd.kind = "split" THEN Sel(v[2], actual[1])
           ELSE Expr(nd.kind, 0, actual)

OutputsAgree ==
  \A i \in 1..Len(hist.orig[ReturnId].inputs) :
    Eval(nodes, nodes[ReturnId].inputs[i], EvalDepth)
      = Eval(hist.orig, hist.orig[ReturnId].inputs[i], EvalDepth)

\* C2, as claimed: when FuseGraph returns, every graph output computes the
\* expression over the graph inputs that it computed in the input graph.
C2_SemanticsPreserved == (pc = "done" /\ pass = 1) => OutputsAgree

\* ------------------------------------------------------------ termination
\* run() has a step to take: a scanNode call, or the end of a sweep
RunCanStep == Scanning \/ (pc = "scan" /\ it = REnd)

\* C4, as claimed: run() stops only by returning after a full sweep in which
\* no scanNode call reported a change, and it gets there within MaxSteps
\* scanNode calls.
C4_Terminates == pc \in {"build", "done"} \/ RunCanStep

\* ------------------------------------------------------------ idempotence
\* C5: FuseGraph run again, with a fresh topological index, on the graph a
\* completed run has produced reports no change and leaves the graph as it is.
C5_Idempotent ==
  pass = 2 => /\ ~any_changed
              /\ failure = ""
              /\ nodes = hist.final.nodes
              /\ node_list = hist.final.list

\* the second run has returned, on a graph the first run had fused
C5_SecondRunDone == pass = 2 /\ pc = "done" /\ Groups # {} /\ nodes # hist.orig

\* ------------------------------------------------- the measure of a sweep
SweepChanged == pc = "scan" /\ it = REnd /\ any_changed

SimpleMaps(S) == {n \in Range(S.list) : isSimpleMap(S, n)}

\* the (consumer, split) pairs tryToMoveChunk would rewrite
ChunkPatterns(S) ==
  {cs \in Range(S.list) \X Range(S.list) :
     /\ isFusableAsExitNode(S, cs[1])
     /\ \E v \in Range(S.nodes[cs[1]].inputs) :
          /\ v[1] = cs[2]
          /\ S.nodes[cs[2]].stage = S.nodes[cs[1]].stage
          /\ chunkVerdict(S, cs[1], v) = "move"}

Measure(S) == Cardinality(SimpleMaps(S)) + Cardinality(ChunkPatterns(S))

\* the outer nodes a fusion can still consume or seed a group with
Fusables(S) ==
  {n \in Range(S.list) :
     \/ S.nodes[n].kind \in {"FusionGroup", "cat"}
     \/ isSimpleMap(S, n)}

Now == Snapshot(nodes, node_list, topological_index)

\* C10, as claimed: a sweep that reports a change ends with fewer non-group
\* simple-map nodes plus eligible chunk patterns than it started with.
C10_MeasureDecreases == SweepChanged => Measure(Now) < Measure(hist.sweep)

\* C10, amended: a sweep that reports a change ends with fewer outer nodes
\* that are simple maps, concats or fusion groups than it started with.
C10_FusablesDecrease ==
  SweepChanged => Cardinality(Fusables(Now)) < Cardinality(Fusables(hist.sweep))

\* a changed sweep after which the claimed measure is no smaller, while the
\* count of simple maps, concats and fusion groups is
C10_MeasureStalls ==
  /\ SweepChanged
  /\ Measure(Now) >= Measure(hist.sweep)
  /\ Cardinality(Fusables(Now)) < Cardinality(Fusables(hist.sweep))

\* ------------------------------------------------------------ determinism
\* the node list the client built: ids in the order they were appended
OrigList == [i \in 1..(Cardinality(DOMAIN hist.orig) - 2) |-> FirstId + i - 1]

(* FuseGraph is called on the same input graph once more, after a first    *)
(* call has returned: the first result stays in hist.final, and the sort  *)
(* of scanNode is free to order equal indices differently this time.      *)
Replay ==
  /\ pc = "done" /\ pass = 1
  /\ pass' = 3
  /\ pc' = "scan"
  /\ nodes' = hist.orig
  /\ node_list' = OrigList
  /\ topological_index' = FreshIndex(hist.orig, OrigList)
  /\ next_unique' = FirstId + Len(OrigList)
  /\ it' = Last(OrigList)
  /\ any_changed' = FALSE
  /\ failure' = ""
  /\ hist' = [hist EXCEPT !.steps = 0,
                          !.sweep = Snapshot(hist.orig, OrigList,
                                             FreshIndex(hist.orig, OrigList))]

NextReplay == Build \/ Start \/ ScanNode \/ SweepEnd \/ Replay

ReplaySpec == Init /\ [][NextReplay]_vars

(* An outer node without its id and without the order of its inputs,      *)
(* outputs and subgraph nodes: what it reads, what it yields and what its *)
(* subgraph computes, as expressions over the graph inputs.               *)
Signature(nds, n) ==
  LET nd == nds[n]
      actual == [k \in 1..Len(nd.inputs) |-> Eval(nds, nd.inputs[k], EvalDepth)]
  IN  [kind |-> nd.kind,
       stage |-> nd.stage,
       reads |-> Range(actual),
       yields |-> {Eval(nds, <<n, o>>, EvalDepth) : o \in 1..Len(nd.otypes)},
       body |-> {EvalInner(nd.sub, actual, <<nd.sub.body[i].id, 1>>, EvalDepth) :
                   i \in 1..Len(nd.sub.body)},
       size |-> Len(nd.sub.body)]

\* a graph up to the order of sibling nodes and of group inputs and outputs
Canonical(nds, list) ==
  [count |-> Len(list),
   sigs |-> {Signature(nds, n) : n \in Range(list)},
   returns |-> [i \in 1..Len(nds[ReturnId].inputs) |->
                  Eval(nds, nds[ReturnId].inputs[i], EvalDepth)]]

\* C11: a second call of FuseGraph on the same input graph, whatever order
\* the sort gives to inputs of equal index, returns as the first call did,
\* with the same graph up to the order of sibling nodes and group operands.
C11_Deterministic ==
  pass = 3 =>
    /\ failure = ""
    /\ pc = "done" => Canonical(nodes, node_list)
                        = Canonical(hist.final.nodes, hist.final.list)

\* both calls have returned a fused graph, and the two graphs differ in the
\* ids or the order of their nodes
C11_OtherOrder ==
  /\ pass = 3 /\ pc = "done" /\ Groups # {}
  /\ nodes # hist.final.nodes \/ node_list # hist.final.list

\* ------------------------------------------------- the topological index
\* C12: between scanNode steps every node of the outer list has a
\* topological index, and a node with a greater index than another stands
\* after it in the list.
C12_IndexFollowsList ==
  Running =>
    /\ \A n \in Range(node_list) : n \in DOMAIN topological_index
    /\ \A a \in Range(node_list) : \A b \in Range(node_list) :
         topological_index[a] > topological_index[b] => Pos(a) > Pos(b)

\* a group, a new split and a new op share an index after a chunk rewrite
\* and a fusion, between nodes of smaller and of greater index
C12_SharedIndex ==
  /\ pc = "scan" /\ Groups # {}
  /\ \E a \in Range(node_list) : \E b \in Range(node_list) :
       /\ a # b /\ topological_index[a] = topological_index[b]
       /\ nodes[a].kind = "split" /\ a \notin DOMAIN hist.orig
  /\ \E a \in Range(node_list) : \E b \in Range(node_list) :
       topological_index[a] > topological_index[b]

\* ------------------------------------------------------- the two sweeps
\* the ids of the input-graph nodes whose ops a fusion group holds
BodyIds(g) == {nodes[g].sub.body[i].id : i \in 1..Len(nodes[g].sub.body)}

FloatCuda == nodes[ParamId].otypes[1] = TensorType(TRUE, 0, InputSizes)

\* run() is in its first sweep
FirstSweep == pass = 1 /\ pc = "scan" /\ hist.sweep.nodes = hist.orig

(* the input graph %2 = f(x); %3 = g(%2); %4 = h(%2); %5 = l(%4);          *)
(* return (%3, %5), with neg for f, g, h and l, in one stage               *)
TwoBranches ==
  /\ pc # "build" /\ FloatCuda
  /\ DOMAIN hist.orig = {ParamId, ReturnId} \cup (FirstId..(FirstId + 3))
  /\ \A n \in FirstId..(FirstId + 3) : hist.orig[n].kind = "neg" /\ hist.orig[n].stage = 0
  /\ hist.orig[FirstId].inputs = << <<ParamId, 1>> >>
  /\ hist.orig[FirstId + 1].inputs = << <<FirstId, 1>> >>
  /\ hist.orig[FirstId + 2].inputs = << <<FirstId, 1>> >>
  /\ hist.orig[FirstId + 3].inputs = << <<FirstId + 2, 1>> >>

\* C13: on the graph TwoBranches no group of the first sweep mixes {f, g}
\* with {h, l}; the first sweep ends with exactly the two groups {h, l} and
\* {f, g}; and FuseGraph returns one group that holds all four ops.
C13_MergedBySecondSweep ==
  TwoBranches =>
    /\ failure = ""
    /\ FirstSweep =>
         \A g \in Groups : \/ BodyIds(g) \subseteq {FirstId, FirstId + 1}
                           \/ BodyIds(g) \subseteq {FirstId + 2, FirstId + 3}
    /\ (FirstSweep /\ it = REnd) =>
         /\ Len(node_list) = 2 /\ Groups = Range(node_list)
         /\ {BodyIds(g) : g \in Groups}
              = {{FirstId, FirstId + 1}, {FirstId + 2, FirstId + 3}}
    /\ pc = "done" =>
         /\ Len(node_list) = 1 /\ Groups = Range(node_list)
         /\ \A g \in Groups : BodyIds(g) = FirstId..(FirstId + 3)

\* FuseGraph has returned on the graph TwoBranches after a sweep that began
\* with two groups
C13_TwoGroupsMerged ==
  /\ TwoBranches /\ pc = "done" /\ pass = 1
  /\ Cardinality({n \in Range(hist.sweep.list) :
                    hist.sweep.nodes[n].kind = "FusionGroup"}) = 1
  /\ Cardinality(Groups) = 1

\* ------------------------------------------------ a producer with two users
\* the nodes of the input graph that read an output of p
OrigUsers(p) ==
  {u \in DOMAIN hist.orig : \E i \in 1..Len(hist.orig[u].inputs) :
                               hist.orig[u].inputs[i][1] = p}

OrigFusable(n) ==
  /\ n \in DOMAIN hist.orig /\ n \notin {ParamId, ReturnId}
  /\ isFusable([nodes |-> hist.orig], n)

\* p is fusable and read by exactly the fusable nodes c1 and c2, c1 first,
\* all three in one stage
TwoConsumers(p, c1, c2) ==
  /\ OrigFusable(p) /\ OrigFusable(c1) /\ OrigFusable(c2)
  /\ c1 < c2 /\ OrigUsers(p) = {c1, c2}
  /\ hist.orig[c1].stage = hist.orig[p].stage
  /\ hist.orig[c2].stage = hist.orig[p].stage

OneGroupHolds(p, c1, c2) ==
  \E g \in Groups :
    /\ {p, c1, c2} \subseteq BodyIds(g)
    /\ ~Has(nodes[g].sub.outputs, <<p, 1>>)

\* a fuse step of scanNode whose producer is not a group
FuseStep(producer) ==
  /\ Scanning
  /\ isFusableAsExitNode(Fuser(it), it) /\ IndexAssert(Fuser(it), it)
  /\ producer \in FirstActing(Fuser(it), it)
  /\ Verdict(Fuser(it), it, producer) = "fuse"
  /\ nodes[producer[1]].kind # "FusionGroup"
  /\ nodes' = fuse(Fuser(it), it, producer).nodes
  /\ failure' = ""

\* the users of producer that the fuse step leaves outside the group
OutsideUsers(producer) == {u \in Uses([nodes |-> nodes], producer) : u[1] # it}

\* the fused producer is a registered output of the group it' exactly when
\* it had a user other than the consumer, and those users now read it there
ExposedIffUsed(producer) ==
  LET sub == nodes'[it'].sub
      v == <<producer[1], 1>>
  IN  /\ Has(sub.outputs, v) <=> OutsideUsers(producer) # {}
      /\ \A u \in OutsideUsers(producer) :
           /\ u[1] \in DOMAIN nodes'
           /\ nodes'[u[1]].inputs[u[2]] = <<it', LastIndexOf(sub.outputs, v)>>
      /\ producer[1] \notin DOMAIN nodes'

\* C14, as claimed: when FuseGraph returns on a graph whose fusable node p
\* is read by exactly two fusable nodes of its stage, one group holds all
\* three ops and p is not an output of it.
C14_TwoConsumersOneGroup ==
  \A p \in DOMAIN hist.orig : \A c1 \in DOMAIN hist.orig : \A c2 \in DOMAIN hist.orig :
    (pc = "done" /\ TwoConsumers(p, c1, c2)) => OneGroupHolds(p, c1, c2)

\* the value of c is read by the return node alone: it is a graph output
OnlyReturned(c) == OrigUsers(c) = {ReturnId}

\* C14, amended: the same when the values of the two consumers are graph
\* outputs that no node reads; and every fuse of a non-group producer adds
\* the producer as a group output exactly when it has users outside the
\* group, all of which then read that output.
C14_ReturnedConsumersOneGroup ==
  /\ [](\A p \in DOMAIN hist.orig : \A c1 \in DOMAIN hist.orig : \A c2 \in DOMAIN hist.orig :
         (pc = "done" /\ TwoConsumers(p, c1, c2) /\ OnlyReturned(c1) /\ OnlyReturned(c2))
           => OneGroupHolds(p, c1, c2))
  /\ [][\A producer \in UNION {Range(nodes[n].inputs) : n \in DOMAIN nodes} :
          FuseStep(producer) => ExposedIffUsed(producer)]_vars

\* FuseGraph has returned one group with p and its two consumers, whose
\* values are graph outputs; the group has an output for each consumer
C14_BothConsumersFused ==
  /\ pc = "done" /\ pass = 1
  /\ \E p \in DOMAIN hist.orig : \E c1 \in DOMAIN hist.orig : \E c2 \in DOMAIN hist.orig :
       /\ TwoConsumers(p, c1, c2) /\ OnlyReturned(c1) /\ OnlyReturned(c2)
       /\ OneGroupHolds(p, c1, c2)
       /\ \E g \in Groups : {<<c1, 1>>, <<c2, 1>>} \subseteq Range(nodes[g].sub.outputs)

\* ------------------------------------------------ the shape of a rewrite
\* producer is an output of a split whose input comes from a fusable node
\* and is read by that split alone, and the consumer `it` is the only user
\* of the split's outputs
MayMoveChunk(producer) ==
  LET G == Fuser(it)
      chunk == producer[1]
  IN  /\ nodes[chunk].kind = "split"
      /\ isFusable(G, nodes[chunk].inputs[1][1])
      /\ \A u \in Uses(G, nodes[chunk].inputs[1]) : u[1] = chunk
      /\ \A o \in 1..Len(nodes[chunk].otypes) :
           \A u \in Uses(G, <<chunk, o>>) : u[1] = it

\* a step of scanNode in which tryToMoveChunk returned true
MoveStep(producer) ==
  /\ Scanning
  /\ isFusableAsExitNode(Fuser(it), it) /\ IndexAssert(Fuser(it), it)
  /\ producer \in FirstActing(Fuser(it), it)
  /\ Verdict(Fuser(it), it, producer) = "move"
  /\ nodes' = tryToMoveChunk(Fuser(it), it, producer).nodes

(* the graph after a1..ak = split(op(x1..xm)) was rewritten: where the     *)
(* split stood stand m new splits and then k new ops, the old split and   *)
(* op are gone, and nothing else has changed                              *)
Distributed(producer) ==
  LET chunk == producer[1]
      opn == nodes[chunk].inputs[1][1]
      op == nodes[opn]
      m == Len(op.inputs)
      k == Len(nodes[chunk].otypes)
      base == Remove(node_list, opn)
      q == IndexOf(base, chunk)
      new(j) == node_list'[q + j - 1]
  IN  /\ Len(node_list') = Len(base) - 1 + m + k
      /\ \A i \in 1..(q - 1) : node_list'[i] = base[i]
      /\ \A i \in (q + 1)..Len(base) : node_list'[i + m + k - 1] = base[i]
      /\ \A j \in 1..(m + k) : new(j) \notin DOMAIN nodes
      /\ \A j \in 1..m :
           /\ nodes'[new(j)].kind = "split"
           /\ nodes'[new(j)].inputs = <<op.inputs[j]>>
           /\ Len(nodes'[new(j)].otypes) = k
      /\ \A i \in 1..k :
           /\ nodes'[new(m + i)].kind = op.kind
           /\ nodes'[new(m + i)].inputs = [j \in 1..m |-> <<new(j), i>>]
           /\ Len(nodes'[new(m + i)].otypes) = 1
           /\ \A u \in Uses([nodes |-> nodes], <<chunk, i>>) :
                nodes'[u[1]].inputs[u[2]] = <<new(m + i), 1>>
      /\ chunk \notin DOMAIN nodes' /\ opn \notin DOMAIN nodes'
      /\ \A n \in (DOMAIN nodes) \ {chunk, opn, it} : nodes'[n] = nodes[n]
      /\ it' = it

\* C15: tryToMoveChunk rewrites only when its producer is an output of a
\* split of a fusable node's value that the split alone reads and whose
\* outputs the consumer alone reads, and returns false when that is not so;
\* a rewrite puts m splits and then k ops where the split stood, re-routes
\* every use of a chunk to the op of that chunk and destroys split and op.
C15_ChunkDistribution ==
  [][\A producer \in UNION {Range(nodes[n].inputs) : n \in DOMAIN nodes} :
       /\ (Scanning /\ producer \in Range(nodes[it].inputs)) =>
            /\ chunkVerdict(Fuser(it), it, producer) = "move" => MayMoveChunk(producer)
            /\ ~MayMoveChunk(producer) => chunkVerdict(Fuser(it), it, producer) = "no"
       /\ MoveStep(producer) => Distributed(producer)]_vars

\* a rewrite of a two-input op has left two new splits side by side and
\* behind them two ops that read the first and the second chunk of both
C15_TwoSplitsTwoOps ==
  /\ pc = "scan" /\ it # REnd /\ any_changed
  /\ \E q \in 1..(Len(node_list) - 3) :
       LET a == node_list[q]
           b == node_list[q + 1]
       IN  /\ nodes[a].kind = "split" /\ a \notin DOMAIN hist.orig
           /\ nodes[b].kind = "split" /\ b \notin DOMAIN hist.orig
           /\ \A i \in 1..ChunkCount :
                /\ nodes[node_list[q + 1 + i]].kind = "min"
                /\ nodes[node_list[q + 1 + i]].inputs = << <<a, i>>, <<b, i>> >>
                /\ <<node_list[q + 1 + i], 1>> \in Range(nodes[it].inputs)

\* ------------------------------------------------------- a straight chain
\* the nodes of the input graph, in list order
OrigNodes == (DOMAIN hist.orig) \ {ParamId, ReturnId}

(* the input graph is a chain of two or more fusable nodes of one stage:   *)
(* each reads the one before it and graph inputs, each value but the last *)
(* is read by the next node alone, and the last value is returned         *)
Chain ==
  /\ pc # "build" /\ Cardinality(OrigNodes) >= 2
  /\ \A n \in OrigNodes :
       /\ OrigFusable(n) /\ hist.orig[n].stage = hist.orig[FirstId].stage
       /\ \A k \in 1..Len(hist.orig[n].inputs) :
            hist.orig[n].inputs[k][1] \in {ParamId, n - 1}
       /\ n > FirstId => <<n - 1, 1>> \in Range(hist.orig[n].inputs)
       /\ OrigUsers(n) = IF n + 1 \in OrigNodes THEN {n + 1} ELSE {ReturnId}

\* the group g is the chain: its inputs are the graph inputs the chain
\* reads, once each; its body is the chain in order, wired as the chain
\* was; its one output is the last op and is what the graph returns
WholeChain(g) ==
  LET sub == nodes[g].sub
      L == Cardinality(OrigNodes)
      external == {v \in UNION {Range(hist.orig[n].inputs) : n \in OrigNodes} :
                     v[1] = ParamId}
      inner(v) == IF v[1] = ParamId
                  THEN <<ParamId, sub.inputs[FirstIndexOf(nodes[g].inputs, v)]>>
                  ELSE v
  IN  /\ nodes[g].kind = "FusionGroup"
      /\ Range(nodes[g].inputs) = external
      /\ Len(nodes[g].inputs) = Cardinality(external)
      /\ Len(sub.inputs) = Len(nodes[g].inputs)
      /\ Len(sub.body) = L
      /\ \A i \in 1..L :
           LET n == FirstId + i - 1
           IN  /\ sub.body[i].id = n
               /\ sub.body[i].kind = hist.orig[n].kind
               /\ sub.body[i].inputs
                    = [k \in 1..Len(hist.orig[n].inputs) |-> inner(hist.orig[n].inputs[k])]
      /\ sub.outputs = << <<FirstId + L - 1, 1>> >>
      /\ Len(nodes[g].otypes) = 1
      /\ nodes[ReturnId].inputs = << <<g, 1>> >>

\* C16: on a chain no assertion fails, and FuseGraph returns a graph whose
\* only node is one fusion group that is the whole chain.
C16_ChainBecomesOneGroup ==
  Chain =>
    /\ failure = ""
    /\ pc = "done" => Len(node_list) = 1 /\ WholeChain(node_list[1])

\* FuseGraph has returned on a chain of four nodes with two-input ops in it
C16_LongChainFused ==
  /\ Chain /\ pc = "done" /\ pass = 1
  /\ Cardinality(OrigNodes) = MaxNodes
  /\ \E n \in OrigNodes : Len(hist.orig[n].inputs) = 2
  /\ Len(node_list) = 1 /\ Groups = Range(node_list)

\* ------------------------------------------------------ concat as an exit
\* n is a concat on the accelerator in the graph nds
DeviceConcat(nds, n) == nds[n].kind = "cat" /\ isCuda([nodes |-> nds], n)

\* all inputs of n have the sizes of its first input
SameSizes(nds, n) ==
  \A i \in 1..Len(nds[n].inputs) :
    TypeOf([nodes |-> nds], nds[n].inputs[i]).sizes
      = TypeOf([nodes |-> nds], nds[n].inputs[1]).sizes

\* the fusable nodes of c's stage whose values the concat c reads in the
\* input graph
FusableProducers(c) ==
  {v[1] : v \in {w \in Range(hist.orig[c].inputs) :
                   OrigFusable(w[1]) /\ hist.orig[w[1]].stage = hist.orig[c].stage}}

Producers(n) == {nodes[n].inputs[i][1] : i \in 1..Len(nodes[n].inputs)} \cap DOMAIN nodes

\* the outer nodes that S depends on, directly or through other outer nodes
RECURSIVE DependsOn(_, _)
DependsOn(S, fuel) ==
  LET T == S \cup UNION {Producers(n) : n \in S}
  IN  IF fuel = 0 \/ T = S THEN S ELSE DependsOn(T, fuel - 1)

\* C18, as claimed: after every scanNode step no fusion group has an input
\* that depends, directly or through other outer nodes, on an output of
\* that group.
C18_Acyclic ==
  Running =>
    \A g \in Groups : g \notin DependsOn(Producers(g), Cardinality(DOMAIN nodes))

\* ------------------------------------------------------------ no nesting
\* C19: no subgraph holds a node of kind FusionGroup, and the assertion of
\* mergeNodeIntoGroup that its node is not a fusion group never fails.
C19_NoNestedGroups ==
  /\ failure # "mergeNodeIntoGroup: kind"
  /\ \A g \in Groups : \A i \in 1..Len(nodes[g].sub.body) :
       nodes[g].sub.body[i].kind # "FusionGroup"

\* FuseGraph has returned a group into which copies of a group, made by a
\* chunk rewrite, were merged: the group holds a concat that is a copy
C19_GroupCopiesMerged ==
  /\ pc = "done" /\ failure = ""
  /\ \E g \in Groups : \E i \in 1..Len(nodes[g].sub.body) :
       /\ nodes[g].sub.body[i].kind = "cat"
       /\ nodes[g].sub.body[i].id \notin DOMAIN hist.orig
       /\ Len(nodes[g].sub.body) > 2

====
